---------------------------- MODULE Spec2Model ----------------------------
(***************************************************************************)
(* Photan: the photometry recording (src/src/core.py) and the peri-event   *)
(* window extraction cont_var_peh (src/src/analysis_functions.py).         *)
(*                                                                         *)
(* Numbers.  A sample of a signal is a float, written here as a record     *)
(* [kind, num, rad]: "num" is the real number num, "z" the real number     *)
(* num / sqrt(rad) (the shape every z-scored sample has), "nan" and "inf"  *)
(* the non-finite floats.  Arithmetic is exact: rounding error of binary   *)
(* floating point is not modelled.  Timestamps are numbers compared by     *)
(* exact equality, so integers stand for them.  A window (before, after)   *)
(* is a pair of rationals with denominator Den; min_max holds the two      *)
(* numerators.  Indices are 0-based as in Python; sequences are 1-based.   *)
(***************************************************************************)
EXTENDS Integers, Sequences, FiniteSets, TLC

VARIABLES
    signal,      \* data.signal (self.signal)
    timestamps,  \* data.timestamps (self.timestamps)
    sr,          \* data.sr (self.sr)
    ctor,        \* the arguments the constructor was given
    ret,         \* what the last conditioning call gave back to its caller
    op,          \* the last conditioning call
    applied,     \* the conditioning methods that have returned so far
    pc,          \* position of the cont_var_peh call
    ref_ts,      \* cont_var_peh argument ref_ts
    min_max,     \* cont_var_peh argument min_max (numerators over Den)
    idx,         \* cont_var_peh argument idx
    trials,      \* cont_var_peh local: the rows appended so far
    cuts,        \* cont_var_peh locals of each finished iteration
    trials_df,   \* cont_var_peh result
    exc          \* exception that ended the cont_var_peh call

vars == <<signal, timestamps, sr, ctor, ret, op, applied, pc, ref_ts, min_max, idx,
          trials, cuts, trials_df, exc>>

dataVars == <<signal, timestamps, sr, ctor>>
condVars == <<ret, op, applied>>
callVars == <<pc, ref_ts, min_max, idx, trials, cuts, trials_df, exc>>

(***************************************************************************)
(* Bounds of the model.                                                    *)
(***************************************************************************)
MaxLen == 3        \* longest recording handed to cont_var_peh
MaxRefs == 2       \* longest ref_ts
MaxWin == 2        \* largest window numerator
MaxSr == 2         \* largest sampling rate
MaxBase == 1       \* largest first sample of a recording
MaxCondLen == 13   \* longest recording handed to the conditioning methods
MaxCut == 2        \* largest cutoff numerator

Den == MaxSr       \* a window component is w / Den

(***************************************************************************)
(* Floats.                                                                 *)
(***************************************************************************)
Num(x) == [kind |-> "num", num |-> x, rad |-> 1]
Z(d, v) == [kind |-> "z", num |-> d, rad |-> v]
NaN == [kind |-> "nan", num |-> 0, rad |-> 0]
Inf(s) == [kind |-> "inf", num |-> s, rad |-> 0]

IsFinite(x) == x.kind \in {"num", "z"}

Max2(a, b) == IF a >= b THEN a ELSE b
Min2(a, b) == IF a <= b THEN a ELSE b
Abs(x) == IF x < 0 THEN -x ELSE x

Ramp(n, b) == [i \in 1..n |-> Num(b + i - 1)]
Const(n, a) == [i \in 1..n |-> Num(a)]

NonDecreasing(s) == \A i \in 1..(Len(s) - 1) : s[i] <= s[i + 1]


(***************************************************************************)
(* Python and numpy primitives that cont_var_peh uses.                     *)
(***************************************************************************)

\* a faulty IntCast: n // d, which rounds toward minus infinity
IntFloor(n, d) == n \div d

\* int(n / d) for d > 0: Python's int() of a float drops the fraction,
\* that is, it rounds toward zero.
IntCast(n, d) == IF n >= 0 THEN n \div d ELSE -((-n) \div d)

\* a faulty SliceBound: a bound past the end wraps around instead of being
\* clipped
SliceBoundWrap(n, a) ==
    IF a < 0 THEN Max2(a + n, 0)
    ELSE IF n = 0 THEN 0
    ELSE IF a > n THEN a % n ELSE a

\* s[a:b] for a sequence s and integers a, b: a negative bound counts from
\* the end of s, and a bound outside s is clipped to it.
SliceBound(n, a) == IF a < 0 THEN Max2(a + n, 0) ELSE Min2(a, n)

\* a faulty Slice: the end bound is taken inclusive
SliceInclusive(s, a, b) ==
    LET lo == SliceBound(Len(s), a)
        hi == Min2(SliceBound(Len(s), b) + 1, Len(s))
    IN  IF lo >= hi THEN << >> ELSE SubSeq(s, lo + 1, hi)

Slice(s, a, b) ==
    LET lo == SliceBound(Len(s), a)
        hi == SliceBound(Len(s), b)
    IN  IF lo >= hi THEN << >> ELSE SubSeq(s, lo + 1, hi)

\* a faulty Where: without an exact match, the entries nearest to event
WhereNearest(ts, event) ==
    LET exact == {i \in 0..(Len(ts) - 1) : ts[i + 1] = event}
    IN  IF exact # {} THEN exact
        ELSE {i \in 0..(Len(ts) - 1) :
                \A j \in 0..(Len(ts) - 1) :
                   Abs(ts[i + 1] - event) <= Abs(ts[j + 1] - event)}

\* np.where(ts == event)[0]: the 0-based indices of the entries equal to
\* event, in ascending order; here the set of them.
Where(ts, event) == {i \in 0..(Len(ts) - 1) : ts[i + 1] = event}

\* a faulty Elem0: a[-1], the greatest entry
ElemLast(a) == CHOOSE i \in a : \A j \in a : i >= j

\* a[0] for the ascending array a of a non-empty index set: its least entry.
Elem0(a) == CHOOSE i \in a : \A j \in a : i <= j

\* pd.DataFrame(rows) for a list of lists: one row per list, as many columns
\* as the longest list has entries, the missing entries NaN.
MaxRowLen(rows) ==
    IF rows = << >> THEN 0
    ELSE CHOOSE m \in {Len(rows[k]) : k \in 1..Len(rows)} :
             \A k \in 1..Len(rows) : Len(rows[k]) <= m

\* a faulty DataFrame: the rows are cut to the shortest row
DataFrameShortest(rows) ==
    LET w == IF rows = << >> THEN 0
             ELSE CHOOSE m \in {Len(rows[k]) : k \in 1..Len(rows)} :
                      \A k \in 1..Len(rows) : Len(rows[k]) >= m
    IN  [shape |-> <<Len(rows), w>>,
         values |-> [k \in 1..Len(rows) |-> [c \in 1..w |-> rows[k][c]]]]

DataFrame(rows) ==
    [shape |-> <<Len(rows), MaxRowLen(rows)>>,
     values |-> [k \in 1..Len(rows) |->
                   [c \in 1..MaxRowLen(rows) |->
                      IF c <= Len(rows[k]) THEN rows[k][c] ELSE NaN]]]

NoDataFrame == [shape |-> <<-1, -1>>, values |-> << >>]

(***************************************************************************)
(* cont_var_peh: one iteration of each of its two loops.  Each gives the   *)
(* locals of the iteration: idx_evt, int(start), int(end) and c_trial.     *)
(***************************************************************************)

\* a faulty TsTrial: the window components are taken with their sign
TsTrialSigned(sig, ts, rate, mm, event) ==
    LET idx_evt == Elem0(Where(ts, event))
        start == idx_evt * Den - mm[1] * rate
        end == idx_evt * Den + mm[2] * rate
    IN  [idx_evt |-> idx_evt,
         start |-> IntCast(start, Den),
         end |-> IntCast(end, Den),
         c_trial |-> Slice(sig, IntCast(start, Den), IntCast(end, Den))]

\* lines 42-45, the loop of "if not idx"; Where(ts, event) is not empty
TsTrial(sig, ts, rate, mm, event) ==
    LET idx_evt == Elem0(Where(ts, event))
        start == idx_evt * Den - Abs(mm[1]) * rate
        end == idx_evt * Den + Abs(mm[2]) * rate
    IN  [idx_evt |-> idx_evt,
         start |-> IntCast(start, Den),
         end |-> IntCast(end, Den),
         c_trial |-> Slice(sig, IntCast(start, Den), IntCast(end, Den))]

\* lines 50-52, the loop of "else"
IdxTrial(sig, rate, mm, event) ==
    LET start == event * Den - Abs(mm[1]) * rate
        end == event * Den + Abs(mm[2]) * rate
    IN  [idx_evt |-> event,
         start |-> IntCast(start, Den),
         end |-> IntCast(end, Den),
         c_trial |-> Slice(sig, IntCast(start, Den), IntCast(end, Den))]

(***************************************************************************)
(* Inputs.  cont_var_peh copies samples and never looks at them, so the    *)
(* recordings it is given hold the distinct samples 0, 1, 2, ...: every    *)
(* row then tells which positions of the signal it was taken from.         *)
(***************************************************************************)
\* timestamps; reference points: every timestamp and every index, and
\* MaxLen, which is neither; window numerators, one of them negative;
\* sampling rates: 1 cuts windows between samples, MaxSr = Den does not
TsVals == 0..(MaxLen - 1)
RefVals == 0..MaxLen
WinVals == -1..MaxWin
SrVals == {1, MaxSr}

SeqsUpTo(S, n) == UNION {[1..m -> S] : m \in 0..n}

NoCall ==
    /\ pc = "idle"
    /\ ref_ts = << >>
    /\ min_max = <<0, 0>>
    /\ idx = FALSE
    /\ trials = << >>
    /\ cuts = << >>
    /\ trials_df = NoDataFrame
    /\ exc = "none"

NoReturn == [kind |-> "none", value |-> << >>]

NoCond ==
    /\ ret = NoReturn
    /\ op = "none"
    /\ applied = {}

\* photometry(signal, sampling_rate, timestamps), lines 62-64
Construct(sig, rate, ts) ==
    /\ sr = rate
    /\ signal = sig
    /\ timestamps = ts
    /\ ctor = [signal |-> sig, sr |-> rate, timestamps |-> ts]

Init ==
    /\ \E n \in 0..MaxLen, rate \in SrVals :
         \E ts \in [1..n -> TsVals] :
            /\ NonDecreasing(ts)
            /\ Construct(Ramp(n, 0), rate, ts)
    /\ NoCond
    /\ NoCall

(***************************************************************************)
(* cont_var_peh(data, ref_ts, min_max, idx), lines 37-57.                  *)
(***************************************************************************)

\* line 38: entry with the arguments ref_ts, min_max, idx; trials = []
Call ==
    /\ pc = "idle"
    /\ \E r \in SeqsUpTo(RefVals, MaxRefs), wb \in WinVals, wa \in WinVals,
          ix \in BOOLEAN :
            /\ ref_ts' = r
            /\ min_max' = <<wb, wa>>
            /\ idx' = ix
    /\ pc' = "loop"
    /\ trials' = << >>
    /\ cuts' = << >>
    /\ UNCHANGED <<trials_df, exc>>
    /\ UNCHANGED <<dataVars, condVars>>

\* lines 41-46: one iteration over ref_ts in timestamp mode
TsIteration ==
    /\ pc = "loop"
    /\ ~idx
    /\ Len(trials) < Len(ref_ts)
    /\ LET event == ref_ts[Len(trials) + 1]
           t == TsTrial(signal, timestamps, sr, min_max, event)
       IN  \/ /\ Where(timestamps, event) = {}
              /\ pc' = "raised"
              /\ exc' = "IndexError"
              /\ UNCHANGED <<trials, cuts>>
           \/ /\ Where(timestamps, event) # {}
              /\ trials' = Append(trials, t.c_trial)
              /\ cuts' = Append(cuts, [idx_evt |-> t.idx_evt,
                                       start |-> t.start, end |-> t.end])
              /\ UNCHANGED <<pc, exc>>
    /\ UNCHANGED <<ref_ts, min_max, idx, trials_df>>
    /\ UNCHANGED <<dataVars, condVars>>

\* lines 49-53: one iteration over ref_ts in index mode
IdxIteration ==
    /\ pc = "loop"
    /\ idx
    /\ Len(trials) < Len(ref_ts)
    /\ LET event == ref_ts[Len(trials) + 1]
           t == IdxTrial(signal, sr, min_max, event)
       IN  /\ trials' = Append(trials, t.c_trial)
           /\ cuts' = Append(cuts, [idx_evt |-> t.idx_evt,
                                    start |-> t.start, end |-> t.end])
    /\ UNCHANGED <<pc, exc, ref_ts, min_max, idx, trials_df>>
    /\ UNCHANGED <<dataVars, condVars>>

\* lines 55-57: the loop is over
Return ==
    /\ pc = "loop"
    /\ Len(trials) = Len(ref_ts)
    /\ trials_df' = DataFrame(trials)
    /\ pc' = "returned"
    /\ UNCHANGED <<ref_ts, min_max, idx, trials, cuts, exc>>
    /\ UNCHANGED <<dataVars, condVars>>

Next ==
    \/ Call
    \/ TsIteration
    \/ IdxIteration
    \/ Return

Spec == Init /\ [][Next]_vars


(***************************************************************************)
(* The conditioning methods of photometry, src/src/core.py lines 117-178.  *)
(* A method's outcome is the attributes of self after the call and what    *)
(* the caller gets: the instance, or an exception.                         *)
(***************************************************************************)
Order == 3                    \* butter(3, ...)
PadLen == 3 * (Order + 1)     \* filtfilt's default padlen, 3 * max(len(a), len(b))

Self == [kind |-> "instance", value |-> << >>]
Raised(e) == [kind |-> "raised", value |-> <<e>>]

Attrs(sig, rate, ts) == [signal |-> sig, sr |-> rate, timestamps |-> ts]

RECURSIVE SumSeq(_)
SumSeq(s) == IF s = << >> THEN 0 ELSE Head(s) + SumSeq(Tail(s))

\* a faulty Divide: a zero divisor is guarded and gives 0
DivideGuarded(d, v) == IF v = 0 THEN Num(0) ELSE Z(d, v)

\* the float d / sqrt(v) for v >= 0: a division by zero gives nan or inf
Divide(d, v) ==
    IF v = 0
    THEN IF d = 0 THEN NaN ELSE Inf(IF d > 0 THEN 1 ELSE -1)
    ELSE Z(d, v)

\* one record for one real number: d / sqrt(v) = (d / g) / sqrt(v / g^2)
CommonFactor(ds, v) ==
    LET top == Max2(1, SumSeq([i \in 1..Len(ds) |-> Abs(ds[i])]))
    IN  CHOOSE g \in 1..top :
          /\ v % (g * g) = 0 /\ \A i \in 1..Len(ds) : ds[i] % g = 0
          /\ \A h \in (g + 1)..top :
               ~(v % (h * h) = 0 /\ \A i \in 1..Len(ds) : ds[i] % h = 0)

\* lines 174-176: (signal - mean) / std with the population std.  For the
\* samples x[i] = d[i] / sqrt(rad) of one rad, n = len(signal), S = sum(d),
\* Q = sum(d^2): (x[i] - mean) / std = (n d[i] - S) / sqrt(n Q - S^2).
\* A non-finite sample makes mean and std, and with them every entry, nan.
ZScoreArray(sig) ==
    IF \E i \in 1..Len(sig) : ~IsFinite(sig[i])
    THEN [i \in 1..Len(sig) |-> NaN]
    ELSE LET n == Len(sig)
             d == [i \in 1..n |-> sig[i].num]
             S == SumSeq(d)
             Q == SumSeq([i \in 1..n |-> d[i] * d[i]])
             dev == [i \in 1..n |-> n * d[i] - S]
             var == n * Q - S * S
             g == CommonFactor(dev, var)
         IN  [i \in 1..n |-> Divide(dev[i] \div g, var \div (g * g))]

\* butter(3, Wn, fs = sr) accepts 0 < Wn < fs / 2 only; Wn = c / Den
ValidCutoff(c, rate) == 0 < c /\ 2 * c < rate * Den

\* a faulty FiltFilt: the output loses the last sample
FiltFiltValid(x) ==
    IF \E i \in 1..Len(x) : ~IsFinite(x[i])
    THEN {[i \in 1..(Len(x) - 1) |-> NaN]}
    ELSE {Ramp(Len(x) - 1, b) : b \in 0..MaxBase}

\* filtfilt(b, a, x, padtype = "even") for len(x) > padlen: an array of the
\* length of x; which finite numbers it holds is left open, and a
\* non-finite sample of x spreads over the whole output.
FiltFilt(x) ==
    IF \E i \in 1..Len(x) : ~IsFinite(x[i])
    THEN {[i \in 1..Len(x) |-> NaN]}
    ELSE {Ramp(Len(x), b) : b \in 0..MaxBase}
           \cup {Const(Len(x), b) : b \in 0..MaxBase}

\* lines 134-137 (debleach) and 156-159 (lp_filter)
Filtered(self, c) ==
    IF ~ValidCutoff(c, self.sr) \/ Len(self.signal) <= PadLen
    THEN {[self |-> self, ret |-> Raised("ValueError")]}
    ELSE {[self |-> [self EXCEPT !.signal = y], ret |-> Self] :
            y \in FiltFilt(self.signal)}

Debleach(self, low) == Filtered(self, low)

LpFilter(self, high) == Filtered(self, high)

\* lines 174-178
ZScore(self) ==
    [self |-> [self EXCEPT !.signal = ZScoreArray(self.signal)], ret |-> Self]

Method(name, outcome) ==
    /\ signal' = outcome.self.signal
    /\ sr' = outcome.self.sr
    /\ timestamps' = outcome.self.timestamps
    /\ ret' = outcome.ret
    /\ op' = name
    /\ applied' = IF outcome.ret.kind = "raised" THEN applied
                  ELSE applied \cup {name}
    /\ UNCHANGED ctor
    /\ UNCHANGED callVars

CutVals == 0..MaxCut

debleach ==
    \E low \in CutVals :
       \E o \in Debleach(Attrs(signal, sr, timestamps), low) :
          Method("debleach", o)

lp_filter ==
    \E high \in CutVals :
       \E o \in LpFilter(Attrs(signal, sr, timestamps), high) :
          Method("lp_filter", o)

zscore == Method("zscore", ZScore(Attrs(signal, sr, timestamps)))

CondInit ==
    /\ \E n \in 0..MaxCondLen, m \in 0..MaxCondLen, b \in 0..MaxBase,
          rate \in SrVals :
         /\ m \in {n, n - 1}
         /\ \E sig \in {Ramp(n, b), Const(n, b)} :
              Construct(sig, rate, [i \in 1..m |-> i - 1])
    /\ NoCond
    /\ NoCall

CondNext ==
    \/ debleach
    \/ lp_filter
    \/ zscore

CondSpec == CondInit /\ [][CondNext]_vars


(***************************************************************************)
(* Properties of cont_var_peh, checked under Spec.                         *)
(***************************************************************************)

\* the finished iterations of the running or finished call
Rows == 1..Len(trials)

\* |before| * sr and |after| * sr as numerators over Den
BeforeNum == Abs(min_max[1]) * sr
AfterNum == Abs(min_max[2]) * sr

\* the window is given with non-negative components and spans whole samples
WholeWindow ==
    /\ min_max[1] >= 0 /\ min_max[2] >= 0
    /\ BeforeNum % Den = 0 /\ AfterNum % Den = 0

\* signal[a : b] for 0 <= a <= b <= len(signal), entry by entry
IsSamples(row, a, b) ==
    /\ Len(row) = b - a
    /\ \A j \in 1..(b - a) : row[j] = signal[a + j]

\* i is the first index at which timestamps holds r
FirstAt(i, r) ==
    /\ i \in 0..(Len(timestamps) - 1)
    /\ timestamps[i + 1] = r
    /\ \A j \in 0..(i - 1) : timestamps[j + 1] # r

\* the window of whole samples around index i lies inside the signal
InsideAt(i) ==
    /\ WholeWindow
    /\ i - BeforeNum \div Den >= 0
    /\ i + AfterNum \div Den <= Len(signal)

C2_LeftEdgeTruncates ==
    ~idx =>
      \A k \in Rows :
         cuts[k].idx_evt * Den - BeforeNum < 0 =>
            /\ cuts[k].end >= 0
            /\ IsSamples(trials[k], 0, Min2(cuts[k].end, Len(signal)))
            /\ Len(trials[k]) * Den < BeforeNum + AfterNum
            /\ (trials[k] # << >> => trials[k][1] = signal[1])

\* C6 as stated: the slice bounds of an event at index i >= 0 are
\* i - floor(|before| * sr) and i + floor(|after| * sr).
C6_FloorBounds ==
    \A k \in Rows :
       cuts[k].idx_evt >= 0 =>
          /\ cuts[k].start = cuts[k].idx_evt - BeforeNum \div Den
          /\ cuts[k].end = cuts[k].idx_evt + AfterNum \div Den

\* s is x / Den with its fraction dropped: the integer between 0 and x / Den
\* that is nearest to x / Den
IsTruncation(s, x) ==
    /\ x >= 0 => (s * Den <= x /\ x < (s + 1) * Den)
    /\ x < 0 => ((s - 1) * Den < x /\ x <= s * Den)

\* C6 as amended: the slice bounds of an event at index i are the integer
\* parts (fraction dropped) of i - |before| * sr and of i + |after| * sr; for
\* i >= 0 the end is i + floor(|after| * sr), and the start is
\* i - ceil(|before| * sr) when |before| * sr <= i, and
\* i - floor(|before| * sr) when |before| * sr > i.
C6_TruncatedBounds ==
    \A k \in Rows :
       LET i == cuts[k].idx_evt
       IN  /\ IsTruncation(cuts[k].start, i * Den - BeforeNum)
           /\ IsTruncation(cuts[k].end, i * Den + AfterNum)
           /\ i >= 0 =>
                /\ cuts[k].end = i + AfterNum \div Den
                /\ cuts[k].start =
                     IF BeforeNum <= i * Den
                     THEN i - ((BeforeNum + Den - 1) \div Den)
                     ELSE i - BeforeNum \div Den

C6_Witness ==
    \E k \in Rows :
       /\ cuts[k].idx_evt >= 0
       /\ BeforeNum % Den # 0
       /\ BeforeNum < cuts[k].idx_evt * Den
       /\ cuts[k].start # cuts[k].idx_evt - BeforeNum \div Den
       /\ AfterNum % Den # 0

\* C7: an event whose window starts inside the signal and ends after it
\* (0 <= start <= len(signal) < end) gets the row signal[start : len(signal)].
C7_RightEdgeTruncates ==
    \A k \in Rows :
       (0 <= cuts[k].start /\ cuts[k].start <= Len(signal)
          /\ Len(signal) < cuts[k].end) =>
             IsSamples(trials[k], cuts[k].start, Len(signal))

C7_Witness ==
    \E k \in Rows :
       /\ 0 <= cuts[k].start /\ cuts[k].start < Len(signal)
       /\ Len(signal) < cuts[k].end
       /\ trials[k] # << >>

\* the row of the window around index i, read off the signal with Python's
\* slice rule: a negative bound counts from the end, a bound is clipped
RowAround(i) ==
    LET a == IntCast(i * Den - BeforeNum, Den)
        b == IntCast(i * Den + AfterNum, Den)
        n == Len(signal)
        lo == IF a < 0 THEN Max2(a + n, 0) ELSE Min2(a, n)
        hi == IF b < 0 THEN Max2(b + n, 0) ELSE Min2(b, n)
    IN  [j \in 1..Max2(hi - lo, 0) |-> signal[lo + j]]

\* C9: in timestamp mode the event index of a reference value is the
\* smallest index at which timestamps holds it, also when later entries hold
\* it too, and the row is the window around that index.
C9_FirstMatchIsUsed ==
    ~idx =>
      \A k \in Rows :
         /\ FirstAt(cuts[k].idx_evt, ref_ts[k])
         /\ \A i \in 0..(Len(timestamps) - 1) :
              FirstAt(i, ref_ts[k]) => trials[k] = RowAround(i)

C9_Witness ==
    /\ ~idx
    /\ \E k \in Rows :
         /\ Cardinality(Where(timestamps, ref_ts[k])) >= 2
         /\ \E i \in Where(timestamps, ref_ts[k]) :
              i # cuts[k].idx_evt /\ trials[k] # RowAround(i)


\* position k of ref_ts holds a value that timestamps does not hold
Missing(k) == \A i \in 1..Len(timestamps) : timestamps[i] # ref_ts[k]

\* C3: a timestamp-mode call whose ref_ts holds a value that timestamps
\* does not hold never returns a trial matrix: it gets no further than the
\* first such value, where it ends with IndexError, however many values it
\* resolved before.
C3_LookupFailureFailsTheCall ==
    (~idx /\ \E k \in 1..Len(ref_ts) : Missing(k)) =>
       /\ pc # "returned"
       /\ trials_df = NoDataFrame
       /\ \A k \in 1..Len(ref_ts) : Missing(k) => Len(trials) < k
       /\ pc = "raised" =>
            /\ exc = "IndexError"
            /\ Missing(Len(trials) + 1)
       /\ pc = "loop" => ENABLED TsIteration /\ ~ENABLED Return

C3_Witness ==
    /\ ~idx
    /\ pc = "raised"
    /\ Len(trials) >= 1
    /\ Missing(Len(trials) + 1)

\* the row that belongs to the k-th reference point
RowOf(k) ==
    IF idx THEN IdxTrial(signal, sr, min_max, ref_ts[k]).c_trial
    ELSE TsTrial(signal, timestamps, sr, min_max, ref_ts[k]).c_trial

\* C4: a returned trial matrix has one row per reference point, in input
\* order; it has as many columns as the longest extracted row has samples;
\* each row holds its samples first and the missing-value marker after them.
C4_MatrixShapeAndPadding ==
    pc = "returned" =>
       LET nrows == trials_df.shape[1]
           ncols == trials_df.shape[2]
       IN  /\ nrows = Len(ref_ts)
           /\ Len(trials_df.values) = nrows
           /\ \A k \in 1..nrows : Len(RowOf(k)) <= ncols
           /\ IF nrows = 0 THEN ncols = 0
              ELSE \E k \in 1..nrows : Len(RowOf(k)) = ncols
           /\ \A k \in 1..nrows :
                /\ Len(trials_df.values[k]) = ncols
                /\ \A c \in 1..ncols :
                     trials_df.values[k][c] =
                        IF c <= Len(RowOf(k)) THEN RowOf(k)[c] ELSE NaN

C4_Witness ==
    /\ pc = "returned"
    /\ Len(ref_ts) >= 2
    /\ \E j, k \in 1..Len(ref_ts) :
         /\ j < k
         /\ Len(trials[j]) > Len(trials[k])
         /\ Len(trials[k]) >= 1
         /\ trials_df.values[k][Len(trials[k]) + 1] = NaN
         /\ trials_df.values[j][1] # trials_df.values[k][1]

\* the matrix index mode returns for the reference indices r
IndexModeMatrix(r) ==
    DataFrame([k \in 1..Len(r) |-> IdxTrial(signal, sr, min_max, r[k]).c_trial])

C5_ConditioningFrame ==
    /\ timestamps = ctor.timestamps
    /\ sr = ctor.sr
    /\ Len(signal) = Len(ctor.signal)
    /\ (op # "none" /\ ret.kind # "raised") => ret = Self
    /\ Len(ctor.signal) = Len(ctor.timestamps) => Len(signal) = Len(timestamps)

C5_Witness ==
    /\ applied = {"debleach", "lp_filter", "zscore"}
    /\ ret = Self
    /\ signal # ctor.signal
    /\ Len(signal) = Len(timestamps)

\* every sample of sig is the same finite number: its population standard
\* deviation is 0
ConstantSignal(sig) ==
    /\ Len(sig) >= 1
    /\ \A i \in 1..Len(sig) : sig[i].kind = "num" /\ sig[i] = sig[1]

=============================================================================
